---- MODULE Spec2Model ----
(***************************************************************************)
(* The socket.io part of src/server.js: the joinRoom, chatMessage, typing, *)
(* disconnect and leaveRoom handlers, the activeUsers presence map, the    *)
(* socket.io room subscriptions and the User / Message collections they    *)
(* read and write.                                                         *)
(*                                                                         *)
(* Node runs the handlers on one thread.  A handler runs without           *)
(* interruption up to an await; the awaited promise settles later (it      *)
(* resolves or rejects) and the rest of the handler then runs without      *)
(* interruption up to the next await.  Each such segment is one action.    *)
(* A handler suspended at an await is a task in the bag tasks.             *)
(***************************************************************************)
EXTENDS Naturals, Sequences, FiniteSets, Bags

NONE == "none"

Conns == {"c1", "c2"}
Users == {"A", "B"}
Rooms == {"r1", "r2"}

\* Message texts: sequences of characters; " " and "\t" are white space.
WhiteSpace == {" ", "\t"}
Texts == {<<>>, <<" ">>, <<" ", "\t">>, <<" ", "h">>}

\* Bounds of the model: the client events the server receives in a run, the
\* joinRoom and chatMessage handlers suspended at a time, the messages saved
\* or being saved, and the last reading of the clock.
MaxEvents == 2
MaxInFlight == 2
MaxMsgs == 2
MaxClock == 1

VARIABLES
  status,       \* connection -> "idle" (not opened yet) | "open" | "closed"
  sockUser,     \* connection -> socket.username (NONE: undefined)
  sockRoom,     \* connection -> socket.currentRoom (NONE: undefined)
  subs,         \* connection -> the socket.io rooms the socket is in
  activeUsers,  \* room key -> (username key -> socket id)
  userDb,       \* username -> the User document
  msgDb,        \* the Message documents in insertion order
  now,          \* the server clock read by new Date()
  tasks,        \* bag of handlers suspended at an await
  received,     \* the number of client events received so far
  sent,         \* the events emitted by the last step, in order
  lastOnline,   \* room -> whether onlineUsers was emitted to it, last payload
  last          \* the handler segment that ran in the last step

vars == <<status, sockUser, sockRoom, subs, activeUsers, userDb, msgDb, now,
          tasks, received, sent, lastOnline, last>>

----------------------------------------------------------------------------
\* Helpers

\* String.prototype.trim: strips leading and trailing white space.
RECURSIVE TrimLeft(_)
TrimLeft(s) ==
  IF s # <<>> /\ Head(s) \in WhiteSpace THEN TrimLeft(Tail(s)) ELSE s

RECURSIVE TrimRight(_)
TrimRight(s) ==
  IF s # <<>> /\ s[Len(s)] \in WhiteSpace
  THEN TrimRight(SubSeq(s, 1, Len(s) - 1)) ELSE s

Trim(s) == TrimRight(TrimLeft(s))

\* Object.keys(activeUsers[room] || {}), as a set.
OnlineKeys(au, room) == IF room \in DOMAIN au THEN DOMAIN au[room] ELSE {}

\* PutUser without its guard: the room's entry is replaced by a fresh one.
PutUser_Overwrite(au, room, user, id) ==
  [r \in DOMAIN au \cup {room} |->
     IF r = room THEN [u \in {user} |-> id] ELSE au[r]]

\* if (!activeUsers[room]) activeUsers[room] = {};
\* activeUsers[room][username] = socket.id;
PutUser(au, room, user, id) ==
  LET old == IF room \in DOMAIN au THEN au[room] ELSE <<>>
      new == [u \in DOMAIN old \cup {user} |-> IF u = user THEN id ELSE old[u]]
  IN [r \in DOMAIN au \cup {room} |-> IF r = room THEN new ELSE au[r]]

\* DeleteUser that keeps the entry of a room whose last username it removes.
DeleteUser_KeepRoom(au, room, user) ==
  IF room \in DOMAIN au /\ user \in DOMAIN au[room]
  THEN [r \in DOMAIN au |->
          IF r = room THEN [u \in DOMAIN au[room] \ {user} |-> au[room][u]]
          ELSE au[r]]
  ELSE au

\* if (activeUsers[room] && activeUsers[room][username]) {
\*   delete activeUsers[room][username];
\*   if (Object.keys(activeUsers[room]).length === 0) delete activeUsers[room]; }
DeleteUser(au, room, user) ==
  IF room \in DOMAIN au /\ user \in DOMAIN au[room]
  THEN LET rest == [u \in DOMAIN au[room] \ {user} |-> au[room][u]]
       IN IF DOMAIN rest = {}
          THEN [r \in DOMAIN au \ {room} |-> au[r]]
          ELSE [r \in DOMAIN au |-> IF r = room THEN rest ELSE au[r]]
  ELSE au

\* io.to(room): the connected sockets that are in the socket.io room, given
\* the room subscriptions sb.
InRoom(sb, room) == {c \in Conns : status[c] = "open" /\ room \in sb[c]}

\* InRoomExcept that does not leave out the emitting socket.
InRoomExcept_Everyone(sb, room, c) == InRoom(sb, room)

\* socket.to(room): the same, without the emitting socket.
InRoomExcept(sb, room, c) == InRoom(sb, room) \ {c}

\* socket.emit: to the socket itself, delivered while it is connected.
Self(c) == IF status[c] = "open" THEN {c} ELSE {}

NoMsg == [username |-> NONE, message |-> <<>>, timestamp |-> 0]

\* An emitted event: its name, how it was addressed ("socket": socket.emit,
\* "room": io.to(room).emit, "others": socket.to(room).emit), the emitting
\* socket, the addressed room, the connections it is delivered to, and its
\* payload.
Event(type, to, conn, room, rcpt, users, user, flag, msg, msgs) ==
  [type |-> type, to |-> to, conn |-> conn, room |-> room, rcpt |-> rcpt,
   users |-> users, user |-> user, flag |-> flag, msg |-> msg, msgs |-> msgs]

ErrorEv(c) ==
  Event("error", "socket", c, NONE, Self(c), {}, NONE, FALSE, NoMsg, <<>>)

OnlineUsersEv(c, sb, room, au) ==
  Event("onlineUsers", "room", c, room, InRoom(sb, room),
        OnlineKeys(au, room), NONE, FALSE, NoMsg, <<>>)

UserJoinedEv(c, sb, room, user) ==
  Event("userJoined", "others", c, room, InRoomExcept(sb, room, c), {}, user,
        FALSE, NoMsg, <<>>)

UserLeftEv(c, sb, room, user) ==
  Event("userLeft", "others", c, room, InRoomExcept(sb, room, c), {}, user,
        FALSE, NoMsg, <<>>)

UserTypingEv(c, room, user, flag) ==
  Event("userTyping", "others", c, room, InRoomExcept(subs, room, c), {},
        user, flag, NoMsg, <<>>)

MessageEv(c, room, msg) ==
  Event("message", "room", c, room, InRoom(subs, room), {}, NONE, FALSE, msg,
        <<>>)

ChatHistoryEv(c, msgs) ==
  Event("chatHistory", "socket", c, NONE, Self(c), {}, NONE, FALSE, NoMsg,
        msgs)

\* Message.find({ room }).sort({ timestamp: 1 }): the documents of the room,
\* by ascending timestamp; documents with equal timestamps keep their
\* insertion order.
RECURSIVE InsertByTs(_, _)
InsertByTs(sorted, m) ==
  IF sorted = <<>> THEN <<m>>
  ELSE IF sorted[Len(sorted)].timestamp <= m.timestamp THEN Append(sorted, m)
  ELSE Append(InsertByTs(SubSeq(sorted, 1, Len(sorted) - 1), m),
              sorted[Len(sorted)])

RECURSIVE SortByTs(_)
SortByTs(s) ==
  IF s = <<>> THEN <<>>
  ELSE InsertByTs(SortByTs(SubSeq(s, 1, Len(s) - 1)), s[Len(s)])

\* FindMessages without the sort: the documents in insertion order.
FindMessages_Unsorted(db, room) == SelectSeq(db, LAMBDA m : m.room = room)

FindMessages(db, room) == SortByTs(SelectSeq(db, LAMBDA m : m.room = room))

\* A suspended handler.  kind: "join" | "chat" | "disconnect"; pc: the await
\* it is suspended at; user, room, text, ts: the values the handler holds in
\* its local variables; had: for a join, which of its in-memory effects were
\* already in place before it applied them ("pres", "bound", "sub"), and for
\* a disconnect, "sub" when the socket was still in its currentRoom when it
\* closed.
Task(kind, pc, c, user, room, text, ts, had) ==
  [kind |-> kind, pc |-> pc, conn |-> c, user |-> user, room |-> room,
   text |-> text, ts |-> ts, had |-> had]

Pending == BagToSet(tasks)
InFlight(c) == {t \in Pending : t.conn = c}
Suspend(t) == tasks (+) SetToBag({t})
Resume(t) == tasks (-) SetToBag({t})

\* Bounds on what may be started: at most MaxInFlight joinRoom and chatMessage
\* handlers are suspended at a time, and at most MaxMsgs messages are ever
\* saved or being saved.
Awaiting(kinds) ==
  BagCardinality([t \in {x \in Pending : x.kind \in kinds} |-> tasks[t]])
CanStart == Awaiting({"join", "chat"}) < MaxInFlight
CanSave == Len(msgDb) + Awaiting({"chat"}) < MaxMsgs

\* The budget of a run: fewer than n client events were received so far.
Below(n) == received < n

Step(kind, c, user, room, text, had) ==
  [kind |-> kind, conn |-> c, user |-> user, room |-> room, text |-> text,
   had |-> had]

\* What lastOnline records of an onlineUsers emitted to room.
Snapshot(au, room) == [emitted |-> TRUE, users |-> OnlineKeys(au, room)]

NoDoc == [exists |-> FALSE, socketId |-> NONE, isOnline |-> FALSE]

----------------------------------------------------------------------------
Init ==
  /\ status = [c \in Conns |-> "idle"]
  /\ sockUser = [c \in Conns |-> NONE]
  /\ sockRoom = [c \in Conns |-> NONE]
  /\ subs = [c \in Conns |-> {}]
  /\ activeUsers = <<>>
  /\ userDb = [u \in Users |-> NoDoc]
  /\ msgDb = <<>>
  /\ now = 0
  /\ tasks = EmptyBag
  /\ received = 0
  /\ sent = <<>>
  /\ lastOnline = [r \in Rooms |-> [emitted |-> FALSE, users |-> {}]]
  /\ last = Step("init", NONE, NONE, NONE, <<>>, {})

\* io.on('connection'): a client connects.
Open(c) ==
  /\ status[c] = "idle"
  /\ status' = [status EXCEPT ![c] = "open"]
  /\ sent' = <<>>
  /\ last' = Step("open", c, NONE, NONE, <<>>, {})
  /\ UNCHANGED <<received, sockUser, sockRoom, subs, activeUsers, userDb,
                 msgDb, now, tasks, lastOnline>>

\* The server clock advances.
Tick ==
  /\ now < MaxClock
  /\ now' = now + 1
  /\ sent' = <<>>
  /\ last' = Step("tick", NONE, NONE, NONE, <<>>, {})
  /\ UNCHANGED <<received, status, sockUser, sockRoom, subs, activeUsers,
                 userDb, msgDb, tasks, lastOnline>>

----------------------------------------------------------------------------
\* socket.on('joinRoom'): up to the await of User.findOneAndUpdate.
JoinRoom(c, user, room) ==
  /\ status[c] = "open"
  /\ received' = received + 1
  /\ CanStart
  /\ tasks' = Suspend(Task("join", "upsert", c, user, room, <<>>, 0, {}))
  /\ sent' = <<>>
  /\ last' = Step("joinRoom", c, user, room, <<>>, {})
  /\ UNCHANGED <<status, sockUser, sockRoom, subs, activeUsers, userDb, msgDb,
                 now, lastOnline>>

\* The upsert resolves: the document is written, then socket.join(room), the
\* socket's username and currentRoom and the activeUsers entry are set, up
\* to the await of Message.find.
JoinUpsertOk(t) ==
  /\ t \in Pending /\ t.kind = "join" /\ t.pc = "upsert"
  /\ LET c == t.conn
         had == (IF t.user \in OnlineKeys(activeUsers, t.room)
                 THEN {"pres"} ELSE {})
                \cup (IF sockUser[c] = t.user /\ sockRoom[c] = t.room
                      THEN {"bound"} ELSE {})
                \cup (IF t.room \in subs[c] THEN {"sub"} ELSE {})
     IN /\ userDb' = [userDb EXCEPT ![t.user] =
                        [exists |-> TRUE, socketId |-> c, isOnline |-> TRUE]]
        /\ subs' = [subs EXCEPT ![c] = @ \cup {t.room}]
        /\ sockUser' = [sockUser EXCEPT ![c] = t.user]
        /\ sockRoom' = [sockRoom EXCEPT ![c] = t.room]
        /\ activeUsers' = PutUser(activeUsers, t.room, t.user, c)
        /\ tasks' = Resume(t) (+) SetToBag({[t EXCEPT !.pc = "find",
                                                       !.had = had]})
        /\ sent' = <<>>
        /\ last' = Step("joinUpsertOk", c, t.user, t.room, <<>>, had)
  /\ UNCHANGED <<received, status, msgDb, now, lastOnline>>

\* JoinUpsertFail of a handler that registers the presence entry before it
\* awaits the upsert.
JoinUpsertFail_Registered(t) ==
  /\ t \in Pending /\ t.kind = "join" /\ t.pc = "upsert"
  /\ tasks' = Resume(t)
  /\ activeUsers' = PutUser(activeUsers, t.room, t.user, t.conn)
  /\ sent' = <<ErrorEv(t.conn)>>
  /\ last' = Step("joinUpsertFail", t.conn, t.user, t.room, <<>>, {})
  /\ UNCHANGED <<received, status, sockUser, sockRoom, subs, userDb, msgDb,
                 now, lastOnline>>

\* The upsert rejects: the catch block.
JoinUpsertFail(t) ==
  /\ t \in Pending /\ t.kind = "join" /\ t.pc = "upsert"
  /\ tasks' = Resume(t)
  /\ sent' = <<ErrorEv(t.conn)>>
  /\ last' = Step("joinUpsertFail", t.conn, t.user, t.room, <<>>, {})
  /\ UNCHANGED <<received, status, sockUser, sockRoom, subs, activeUsers,
                 userDb, msgDb, now, lastOnline>>

\* Message.find resolves: chatHistory, onlineUsers, userJoined.
JoinFindOk(t) ==
  /\ t \in Pending /\ t.kind = "join" /\ t.pc = "find"
  /\ tasks' = Resume(t)
  /\ sent' = <<ChatHistoryEv(t.conn, FindMessages(msgDb, t.room)),
               OnlineUsersEv(t.conn, subs, t.room, activeUsers),
               UserJoinedEv(t.conn, subs, t.room, t.user)>>
  /\ lastOnline' = [lastOnline EXCEPT
                      ![t.room] = Snapshot(activeUsers, t.room)]
  /\ last' = Step("joinFindOk", t.conn, t.user, t.room, <<>>, t.had)
  /\ UNCHANGED <<received, status, sockUser, sockRoom, subs, activeUsers,
                 userDb, msgDb, now>>

\* Message.find rejects: the catch block.
JoinFindFail(t) ==
  /\ t \in Pending /\ t.kind = "join" /\ t.pc = "find"
  /\ tasks' = Resume(t)
  /\ sent' = <<ErrorEv(t.conn)>>
  /\ last' = Step("joinFindFail", t.conn, t.user, t.room, <<>>, t.had)
  /\ UNCHANGED <<received, status, sockUser, sockRoom, subs, activeUsers,
                 userDb, msgDb, now, lastOnline>>

\* ChatMessage of a handler that tests the message without trimming it.
ChatMessage_NoTrim(c, room, user, text) ==
  /\ status[c] = "open"
  /\ received' = received + 1
  /\ IF text = <<>>
     THEN tasks' = tasks
     ELSE /\ CanStart
          /\ CanSave
          /\ tasks' = Suspend(Task("chat", "save", c, user, room, text, now,
                                   {}))
  /\ sent' = <<>>
  /\ last' = Step("chatMessage", c, user, room, text, {})
  /\ UNCHANGED <<status, sockUser, sockRoom, subs, activeUsers, userDb, msgDb,
                 now, lastOnline>>

\* socket.on('chatMessage'): up to the early return or the await of save().
ChatMessage(c, room, user, text) ==
  /\ status[c] = "open"
  /\ received' = received + 1
  /\ IF Trim(text) = <<>>
     THEN tasks' = tasks
     ELSE /\ CanStart
          /\ CanSave
          /\ tasks' = Suspend(Task("chat", "save", c, user, room, text, now,
                                   {}))
  /\ sent' = <<>>
  /\ last' = Step("chatMessage", c, user, room, text, {})
  /\ UNCHANGED <<status, sockUser, sockRoom, subs, activeUsers, userDb, msgDb,
                 now, lastOnline>>

\* save() resolves: the document is stored and the message is broadcast.
ChatSaveOk(t) ==
  /\ t \in Pending /\ t.kind = "chat"
  /\ msgDb' = Append(msgDb, [room |-> t.room, username |-> t.user,
                             message |-> t.text, timestamp |-> t.ts])
  /\ tasks' = Resume(t)
  /\ sent' = <<MessageEv(t.conn, t.room,
                         [username |-> t.user, message |-> t.text,
                          timestamp |-> t.ts])>>
  /\ last' = Step("chatSaveOk", t.conn, t.user, t.room, t.text, {})
  /\ UNCHANGED <<received, status, sockUser, sockRoom, subs, activeUsers,
                 userDb, now, lastOnline>>

\* ChatSaveFail of a handler that broadcasts the message before it awaits
\* save().
ChatSaveFail_Broadcast(t) ==
  /\ t \in Pending /\ t.kind = "chat"
  /\ tasks' = Resume(t)
  /\ sent' = <<MessageEv(t.conn, t.room,
                         [username |-> t.user, message |-> t.text,
                          timestamp |-> t.ts]),
               ErrorEv(t.conn)>>
  /\ last' = Step("chatSaveFail", t.conn, t.user, t.room, t.text, {})
  /\ UNCHANGED <<received, status, sockUser, sockRoom, subs, activeUsers,
                 userDb, msgDb, now, lastOnline>>

\* save() rejects: the catch block.
ChatSaveFail(t) ==
  /\ t \in Pending /\ t.kind = "chat"
  /\ tasks' = Resume(t)
  /\ sent' = <<ErrorEv(t.conn)>>
  /\ last' = Step("chatSaveFail", t.conn, t.user, t.room, t.text, {})
  /\ UNCHANGED <<received, status, sockUser, sockRoom, subs, activeUsers,
                 userDb, msgDb, now, lastOnline>>

\* socket.on('typing').
Typing(c, room, user, isTyping) ==
  /\ status[c] = "open"
  /\ received' = received + 1
  /\ sent' = <<UserTypingEv(c, room, user, isTyping)>>
  /\ last' = Step("typing", c, user, room, <<>>, {})
  /\ UNCHANGED <<status, sockUser, sockRoom, subs, activeUsers, userDb, msgDb,
                 now, tasks, lastOnline>>

\* The connection closes: socket.io takes the socket out of its rooms and
\* fires 'disconnect'; the handler runs up to the await of
\* User.findOneAndUpdate, or returns when the socket has no username or no
\* currentRoom.  The task holds the username the update was called with; its
\* room and had are the currentRoom at this point and whether the socket was
\* still in it, which the handler does not hold.
Disconnect(c) ==
  /\ status[c] = "open"
  /\ status' = [status EXCEPT ![c] = "closed"]
  /\ subs' = [subs EXCEPT ![c] = {}]
  /\ LET had == IF sockRoom[c] \in subs[c] THEN {"sub"} ELSE {}
     IN /\ tasks' = IF sockUser[c] # NONE /\ sockRoom[c] # NONE
                    THEN Suspend(Task("disconnect", "write", c, sockUser[c],
                                      sockRoom[c], <<>>, 0, had))
                    ELSE tasks
        /\ last' = Step("disconnect", c, sockUser[c], sockRoom[c], <<>>, had)
  /\ sent' = <<>>
  /\ UNCHANGED <<received, sockUser, sockRoom, activeUsers, userDb, msgDb,
                 now, lastOnline>>

\* The update of the disconnect handler resolves: the document (if there is
\* one) is marked offline, then the entry of socket.username in
\* socket.currentRoom, as they are now, is deleted; onlineUsers, userLeft.
DisconnectWriteOk(t) ==
  /\ t \in Pending /\ t.kind = "disconnect"
  /\ LET c == t.conn
         room == sockRoom[c]
         user == sockUser[c]
         au == DeleteUser(activeUsers, room, user)
     IN /\ userDb' = IF userDb[t.user].exists
                     THEN [userDb EXCEPT ![t.user] =
                             [exists |-> TRUE, socketId |-> NONE,
                              isOnline |-> FALSE]]
                     ELSE userDb
        /\ activeUsers' = au
        /\ sent' = <<OnlineUsersEv(c, subs, room, au),
                     UserLeftEv(c, subs, room, user)>>
        /\ lastOnline' = [lastOnline EXCEPT ![room] = Snapshot(au, room)]
        /\ last' = Step("disconnectWriteOk", c, user, room, <<>>, t.had)
  /\ tasks' = Resume(t)
  /\ UNCHANGED <<received, status, sockUser, sockRoom, subs, msgDb, now>>

\* The update of the disconnect handler rejects: the catch block logs.
DisconnectWriteFail(t) ==
  /\ t \in Pending /\ t.kind = "disconnect"
  /\ tasks' = Resume(t)
  /\ sent' = <<>>
  /\ last' = Step("disconnectWriteFail", t.conn, sockUser[t.conn],
                  sockRoom[t.conn], <<>>, t.had)
  /\ UNCHANGED <<received, status, sockUser, sockRoom, subs, activeUsers,
                 userDb, msgDb, now, lastOnline>>

\* LeaveRoom of a handler that takes the onlineUsers snapshot before it
\* deletes the entry.
LeaveRoom_SnapshotFirst(c, user, room) ==
  /\ status[c] = "open"
  /\ received' = received + 1
  /\ LET sb == [subs EXCEPT ![c] = @ \ {room}]
         au == DeleteUser(activeUsers, room, user)
     IN /\ subs' = sb
        /\ activeUsers' = au
        /\ sent' = <<OnlineUsersEv(c, sb, room, activeUsers),
                     UserLeftEv(c, sb, room, user)>>
        /\ lastOnline' = [lastOnline EXCEPT
                            ![room] = Snapshot(activeUsers, room)]
  /\ last' = Step("leaveRoom", c, user, room, <<>>, {})
  /\ UNCHANGED <<status, sockUser, sockRoom, userDb, msgDb, now, tasks>>

\* socket.on('leaveRoom'): it has no await.
LeaveRoom(c, user, room) ==
  /\ status[c] = "open"
  /\ received' = received + 1
  /\ LET sb == [subs EXCEPT ![c] = @ \ {room}]
         au == DeleteUser(activeUsers, room, user)
     IN /\ subs' = sb
        /\ activeUsers' = au
        /\ sent' = <<OnlineUsersEv(c, sb, room, au),
                     UserLeftEv(c, sb, room, user)>>
        /\ lastOnline' = [lastOnline EXCEPT ![room] = Snapshot(au, room)]
  /\ last' = Step("leaveRoom", c, user, room, <<>>, {})
  /\ UNCHANGED <<status, sockUser, sockRoom, userDb, msgDb, now, tasks>>

----------------------------------------------------------------------------
Next ==
  \/ \E c \in Conns : Open(c)
  \/ Tick
  \/ \E c \in Conns, u \in Users, r \in Rooms :
       Below(MaxEvents) /\ JoinRoom(c, u, r)
  \/ \E t \in Pending : JoinUpsertOk(t)
  \/ \E t \in Pending : JoinUpsertFail(t)
  \/ \E t \in Pending : JoinFindOk(t)
  \/ \E t \in Pending : JoinFindFail(t)
  \/ \E c \in Conns, r \in Rooms, u \in Users, x \in Texts :
       Below(MaxEvents) /\ ChatMessage(c, r, u, x)
  \/ \E t \in Pending : ChatSaveOk(t)
  \/ \E t \in Pending : ChatSaveFail(t)
  \/ \E c \in Conns, r \in Rooms, u \in Users, b \in BOOLEAN :
       Below(MaxEvents) /\ Typing(c, r, u, b)
  \/ \E c \in Conns : Disconnect(c)
  \/ \E t \in Pending : DisconnectWriteOk(t)
  \/ \E t \in Pending : DisconnectWriteFail(t)
  \/ \E c \in Conns, u \in Users, r \in Rooms :
       Below(MaxEvents) /\ LeaveRoom(c, u, r)

Spec == Init /\ [][Next]_vars

\* The presence protocol alone.  The chatMessage and typing handlers read and
\* write none of status, sockUser, sockRoom, subs, activeUsers, userDb and
\* lastOnline, and the clock is read by chatMessage only.
NextPresence ==
  \/ \E c \in Conns : Open(c)
  \/ \E c \in Conns, u \in Users, r \in Rooms :
       Below(MaxEvents) /\ JoinRoom(c, u, r)
  \/ \E t \in Pending : JoinUpsertOk(t)
  \/ \E t \in Pending : JoinUpsertFail(t)
  \/ \E t \in Pending : JoinFindOk(t)
  \/ \E t \in Pending : JoinFindFail(t)
  \/ \E c \in Conns : Disconnect(c)
  \/ \E t \in Pending : DisconnectWriteOk(t)
  \/ \E t \in Pending : DisconnectWriteFail(t)
  \/ \E c \in Conns, u \in Users, r \in Rooms :
       Below(MaxEvents) /\ LeaveRoom(c, u, r)

SpecPresence == Init /\ [][NextPresence]_vars

\* The presence protocol with clients that send leaveRoom only for the room
\* they are joined to, under the username they joined with; a run has one
\* more event than MaxEvents.
NextClients ==
  \/ \E c \in Conns : Open(c)
  \/ \E c \in Conns, u \in Users, r \in Rooms :
       Below(MaxEvents + 1) /\ JoinRoom(c, u, r)
  \/ \E t \in Pending : JoinUpsertOk(t)
  \/ \E t \in Pending : JoinUpsertFail(t)
  \/ \E t \in Pending : JoinFindOk(t)
  \/ \E t \in Pending : JoinFindFail(t)
  \/ \E c \in Conns : Disconnect(c)
  \/ \E t \in Pending : DisconnectWriteOk(t)
  \/ \E t \in Pending : DisconnectWriteFail(t)
  \/ \E c \in Conns :
       /\ Below(MaxEvents + 1)
       /\ sockRoom[c] \in subs[c]
       /\ LeaveRoom(c, sockUser[c], sockRoom[c])

SpecClients == Init /\ [][NextClients]_vars

\* Messaging: connections join rooms and send chat messages and typing
\* indicators; none leaves a room or closes.
NextChat ==
  \/ \E c \in Conns : Open(c)
  \/ Tick
  \/ \E c \in Conns, u \in Users, r \in Rooms :
       Below(MaxEvents) /\ JoinRoom(c, u, r)
  \/ \E t \in Pending : JoinUpsertOk(t)
  \/ \E t \in Pending : JoinUpsertFail(t)
  \/ \E t \in Pending : JoinFindOk(t)
  \/ \E t \in Pending : JoinFindFail(t)
  \/ \E c \in Conns, r \in Rooms, u \in Users, x \in Texts :
       Below(MaxEvents) /\ ChatMessage(c, r, u, x)
  \/ \E t \in Pending : ChatSaveOk(t)
  \/ \E t \in Pending : ChatSaveFail(t)
  \/ \E c \in Conns, r \in Rooms, u \in Users, b \in BOOLEAN :
       Below(MaxEvents) /\ Typing(c, r, u, b)

SpecChat == Init /\ [][NextChat]_vars

\* Two joins: every connection sends at most one joinRoom and every
\* persistence call succeeds.
NextJoin ==
  \/ \E c \in Conns : Open(c)
  \/ \E c \in Conns, u \in Users, r \in Rooms :
       /\ sockUser[c] = NONE
       /\ InFlight(c) = {}
       /\ JoinRoom(c, u, r)
  \/ \E t \in Pending : JoinUpsertOk(t)
  \/ \E t \in Pending : JoinFindOk(t)

SpecJoin == Init /\ [][NextJoin]_vars

\* Messaging in runs of one more event than MaxEvents, in which every
\* persistence call succeeds.
NextRooms ==
  \/ \E c \in Conns : Open(c)
  \/ Tick
  \/ \E c \in Conns, u \in Users, r \in Rooms :
       Below(MaxEvents + 1) /\ JoinRoom(c, u, r)
  \/ \E t \in Pending : JoinUpsertOk(t)
  \/ \E t \in Pending : JoinFindOk(t)
  \/ \E c \in Conns, r \in Rooms, u \in Users, x \in Texts :
       Below(MaxEvents + 1) /\ ChatMessage(c, r, u, x)
  \/ \E t \in Pending : ChatSaveOk(t)
  \/ \E c \in Conns, r \in Rooms, u \in Users, b \in BOOLEAN :
       Below(MaxEvents + 1) /\ Typing(c, r, u, b)

SpecRooms == Init /\ [][NextRooms]_vars

\* Notices: connections join (each at most once), type, leave and close in
\* runs of one more event than MaxEvents, in which every persistence call
\* succeeds.
NextNotices ==
  \/ \E c \in Conns : Open(c)
  \/ \E c \in Conns, u \in Users, r \in Rooms :
       /\ Below(MaxEvents + 1)
       /\ sockUser[c] = NONE
       /\ InFlight(c) = {}
       /\ JoinRoom(c, u, r)
  \/ \E t \in Pending : JoinUpsertOk(t)
  \/ \E t \in Pending : JoinFindOk(t)
  \/ \E c \in Conns, r \in Rooms, u \in Users, b \in BOOLEAN :
       Below(MaxEvents + 1) /\ Typing(c, r, u, b)
  \/ \E c \in Conns : Disconnect(c)
  \/ \E t \in Pending : DisconnectWriteOk(t)
  \/ \E c \in Conns, u \in Users, r \in Rooms :
       Below(MaxEvents + 1) /\ LeaveRoom(c, u, r)

SpecNotices == Init /\ [][NextNotices]_vars

\* History: every connection uses one username of its own, sends chat
\* messages and joins at most once, in runs of one more event than
\* MaxEvents in which every persistence call succeeds.
NameOf(c) == IF c = "c1" THEN "A" ELSE "B"

NextHistory ==
  \/ \E c \in Conns : Open(c)
  \/ Tick
  \/ \E c \in Conns, r \in Rooms :
       /\ Below(MaxEvents + 1)
       /\ sockUser[c] = NONE
       /\ InFlight(c) = {}
       /\ JoinRoom(c, NameOf(c), r)
  \/ \E t \in Pending : JoinUpsertOk(t)
  \/ \E t \in Pending : JoinFindOk(t)
  \/ \E c \in Conns, r \in Rooms, x \in Texts :
       Below(MaxEvents + 1) /\ ChatMessage(c, r, NameOf(c), x)
  \/ \E t \in Pending : ChatSaveOk(t)

SpecHistory == Init /\ [][NextHistory]_vars

----------------------------------------------------------------------------
\* Properties

\* The connection is open, its currentRoom is room and it is in the
\* socket.io room: it joined room and has neither left it nor closed.
Joined(c, room) ==
  status[c] = "open" /\ sockRoom[c] = room /\ room \in subs[c]

JoinedUsers(room) == {sockUser[c] : c \in {d \in Conns : Joined(d, room)}}

Quiescent == tasks = EmptyBag

\* activeUsers[room][user] holds the id of connection c.
HoldsEntry(c, room, user) ==
  user \in OnlineKeys(activeUsers, room) /\ activeUsers[room][user] = c

\* evs is exactly one event: error, emitted to socket c itself.
OnlyErrorTo(evs, c) ==
  /\ Len(evs) = 1
  /\ evs[1].type = "error"
  /\ evs[1].to = "socket"
  /\ evs[1].conn = c
  /\ evs[1].rcpt \subseteq {c}

\* C1: whenever no handler is suspended, the presence set of every room is
\* exactly the set of usernames of the open connections joined to it.
C1_PresenceIsJoinedUsers ==
  Quiescent =>
    \A r \in Rooms : OnlineKeys(activeUsers, r) = JoinedUsers(r)

\* C2: a username is in the presence set of at most one room.
C2_OneRoomPerUser ==
  \A u \in Users :
    Cardinality({r \in Rooms : u \in OnlineKeys(activeUsers, r)}) <= 1

\* C3: a connection that joined room r as u and closed, with none of its
\* handlers still suspended and no other open connection joined to r as u:
\* u is not in r's presence set and not in the last onlineUsers sent to r.
C3_ClosedConnectionIsGone ==
  \A c \in Conns :
    LET u == sockUser[c]
        r == sockRoom[c]
    IN (/\ status[c] = "closed"
        /\ InFlight(c) = {}
        /\ u # NONE /\ r # NONE
        /\ ~ \E d \in Conns \ {c} : Joined(d, r) /\ sockUser[d] = u)
       => /\ u \notin OnlineKeys(activeUsers, r)
          /\ u \notin lastOnline[r].users

\* C4: after the update of the disconnect handler of connection c failed,
\* the presence entry that c held for its user in its room is gone.
C4_CleanupDespiteWriteFailure ==
  last.kind = "disconnectWriteFail"
    => ~ HoldsEntry(last.conn, last.room, last.user)

\* C5: a step in which the upsert of a joinRoom fails changes no presence
\* set, no connection's username, room or subscriptions, and emits exactly
\* one event, error, to the originating connection.
C5_UpsertFailureCommitsNothing ==
  [][last'.kind = "joinUpsertFail"
       => /\ activeUsers' = activeUsers
          /\ sockUser' = sockUser
          /\ sockRoom' = sockRoom
          /\ subs' = subs
          /\ OnlyErrorTo(sent', last'.conn)]_vars

C5_Witness ==
  /\ last.kind = "joinUpsertFail"
  /\ sockRoom[last.conn] # NONE
  /\ sockRoom[last.conn] # last.room
  /\ sent[1].rcpt = {last.conn}

\* C6: after the history fetch of joinRoom(u, r) on connection c failed,
\* what the attempt changed is rolled back: u is not in r's presence set
\* unless it was before, c is not bound to (u, r) unless it was before, and
\* c is not in the socket.io room r unless it was before; and the only event
\* is error, to c.
C6_FindFailureRollsBack ==
  last.kind = "joinFindFail"
    => /\ "pres" \notin last.had
            => last.user \notin OnlineKeys(activeUsers, last.room)
       /\ "bound" \notin last.had
            => ~ (sockUser[last.conn] = last.user
                  /\ sockRoom[last.conn] = last.room)
       /\ "sub" \notin last.had => last.room \notin subs[last.conn]
       /\ OnlyErrorTo(sent, last.conn)

\* C7: when save() fails no message is broadcast and the only event is
\* error, to the sender; and every message that is broadcast is a stored
\* document with the same room, username, text and timestamp.
C7_BroadcastOnlyIfPersisted ==
  /\ last.kind = "chatSaveFail" => OnlyErrorTo(sent, last.conn)
  /\ \A i \in 1..Len(sent) :
       sent[i].type = "message"
         => \E j \in 1..Len(msgDb) :
              msgDb[j] = [room |-> sent[i].room,
                          username |-> sent[i].msg.username,
                          message |-> sent[i].msg.message,
                          timestamp |-> sent[i].msg.timestamp]

C7_Witness ==
  /\ last.kind = "chatSaveFail"
  /\ InRoom(subs, last.room) # {}
  /\ sent[1].rcpt = {last.conn}

\* The text is empty or consists of white space only.
Blank(text) == \A i \in 1..Len(text) : text[i] \in WhiteSpace

\* C8: a step that receives a chatMessage with a blank text stores nothing,
\* suspends no handler, emits nothing and changes no presence or connection
\* state.
C8_BlankMessageDropped ==
  [][(last'.kind = "chatMessage" /\ Blank(last'.text))
       => /\ msgDb' = msgDb
          /\ tasks' = tasks
          /\ sent' = <<>>
          /\ UNCHANGED <<status, sockUser, sockRoom, subs, activeUsers,
                         userDb, lastOnline>>]_vars

C8_Witness ==
  /\ last.kind = "chatMessage"
  /\ last.text = <<" ", "\t">>
  /\ Joined(last.conn, last.room)

\* C9: two connections joined the same room under different usernames, every
\* joinRoom received has finished: each joinRoom bound its connection, the
\* room's presence set is exactly the two usernames and so is the last
\* onlineUsers sent to the room.
C9_ConcurrentJoinsBothPresent ==
  Quiescent =>
    /\ Cardinality({c \in Conns : sockUser[c] # NONE}) = received
    /\ \A c, d \in Conns :
         (/\ sockUser[c] # NONE /\ sockUser[d] # NONE
          /\ sockUser[c] # sockUser[d]
          /\ sockRoom[c] = sockRoom[d])
         => /\ OnlineKeys(activeUsers, sockRoom[c])
                 = {sockUser[c], sockUser[d]}
            /\ lastOnline[sockRoom[c]]
                 = [emitted |-> TRUE, users |-> {sockUser[c], sockUser[d]}]

C9_Witness ==
  /\ Quiescent
  /\ sockUser["c1"] = "A" /\ sockUser["c2"] = "B"
  /\ sockRoom["c1"] = "r1" /\ sockRoom["c2"] = "r1"
  /\ last.conn = "c1"

\* C10: the disconnect handler of a connection that had left its room (it
\* was not in the socket.io room when it closed and holds no presence entry
\* there), whose username no other connection uses, changes no presence set
\* and delivers no onlineUsers and no userLeft of that room to anyone.
C10_DisconnectAfterLeaveIsNoOp ==
  [][(/\ last'.kind = "disconnectWriteOk"
      /\ "sub" \notin last'.had
      /\ last'.room \notin subs[last'.conn]
      /\ ~ HoldsEntry(last'.conn, last'.room, last'.user)
      /\ \A d \in Conns \ {last'.conn} : sockUser[d] # last'.user)
       => /\ activeUsers' = activeUsers
          /\ \A i \in 1..Len(sent') :
               sent'[i].room = last'.room => sent'[i].rcpt = {}]_vars

\* Connection c is joined to room under the username user.
JoinedAs(c, room, user) == Joined(c, room) /\ sockUser[c] = user

\* C11: a chatMessage(room, username, text) whose save resolved was sent by
\* a connection that is joined to that room under that username; from any
\* other connection nothing is stored and nothing is broadcast.
C11_ChatOnlyWhenJoined ==
  last.kind = "chatSaveOk" => JoinedAs(last.conn, last.room, last.user)

\* C12: a leaveRoom(username, room) received from a connection that is not
\* joined to that room under that username changes no presence set and
\* delivers no userLeft.
C12_LeaveOnlyOwnBinding ==
  [][(/\ last'.kind = "leaveRoom"
      /\ ~ JoinedAs(last'.conn, last'.room, last'.user))
       => /\ activeUsers' = activeUsers
          /\ \A i \in 1..Len(sent') :
               sent'[i].type = "userLeft" => sent'[i].rcpt = {}]_vars

\* The open connections whose socket.currentRoom is room.
BoundTo(room) == {c \in Conns : status[c] = "open" /\ sockRoom[c] = room}

\* C13: an event that a handler of a connection joined to a room emits to
\* that room is delivered only to open connections whose current room is
\* that room, and a message event to all of them.
C13_RoomEventsToBoundConnections ==
  \A i \in 1..Len(sent) :
    (sent[i].to # "socket" /\ Joined(sent[i].conn, sent[i].room))
      => /\ sent[i].rcpt \subseteq BoundTo(sent[i].room)
         /\ sent[i].type = "message" => sent[i].rcpt = BoundTo(sent[i].room)

\* The open connections other than c that are in the socket.io room.
OtherSubscribers(c, room) ==
  {d \in Conns \ {c} : status[d] = "open" /\ room \in subs[d]}

\* C14: a typing event emits one userTyping, delivered to every other open
\* connection in the socket.io room and not to the sender; and no
\* userTyping, userJoined or userLeft is delivered to the connection whose
\* event or close caused it.
C14_NoticesNeverToSender ==
  /\ last.kind = "typing"
       => /\ Len(sent) = 1
          /\ sent[1].type = "userTyping"
          /\ sent[1].rcpt = OtherSubscribers(last.conn, last.room)
  /\ \A i \in 1..Len(sent) :
       sent[i].type \in {"userTyping", "userJoined", "userLeft"}
         => sent[i].conn = last.conn /\ last.conn \notin sent[i].rcpt

C14_Witness ==
  /\ last.kind = "typing"
  /\ last.room \in subs[last.conn]
  /\ sent[1].rcpt = Conns \ {last.conn}

\* How many times the document m occurs in the sequence s.
Count(s, m) == Cardinality({i \in 1..Len(s) : s[i] = m})

\* C15: chatHistory is emitted only when the history fetch of a joinRoom
\* resolves, as the first event, to the joining connection only; it holds
\* the stored documents of the joined room, each as often as it is stored,
\* and no other document, by non-decreasing timestamp.
C15_HistoryOfTheRoomInOrder ==
  /\ \A i \in 1..Len(sent) :
       sent[i].type = "chatHistory" => last.kind = "joinFindOk" /\ i = 1
  /\ last.kind = "joinFindOk"
       => LET h == sent[1]
          IN /\ h.type = "chatHistory"
             /\ h.to = "socket"
             /\ h.rcpt \subseteq {last.conn}
             /\ \A k \in 1..Len(h.msgs) : h.msgs[k].room = last.room
             /\ \A j \in 1..Len(msgDb) :
                  msgDb[j].room = last.room
                    => Count(h.msgs, msgDb[j]) = Count(msgDb, msgDb[j])
             /\ \A k \in 1..Len(h.msgs) : Count(msgDb, h.msgs[k]) > 0
             /\ \A k, l \in 1..Len(h.msgs) :
                  k < l => h.msgs[k].timestamp <= h.msgs[l].timestamp

C15_Witness ==
  /\ last.kind = "joinFindOk"
  /\ sent[1].rcpt = {last.conn}
  /\ Len(sent[1].msgs) = 2
  /\ Len(msgDb) = 2
  /\ msgDb[1].timestamp > msgDb[2].timestamp

\* C16: no room key of the presence map has an empty member set.
C16_NoEmptyRoomEntry ==
  \A r \in DOMAIN activeUsers : DOMAIN activeUsers[r] # {}

C16_Witness ==
  /\ last.kind = "leaveRoom"
  /\ received = 2
  /\ sockUser[last.conn] = last.user
  /\ sockRoom[last.conn] = last.room
  /\ activeUsers = <<>>

\* C17: every onlineUsers event carries the presence set that its room has
\* when the event is emitted, and it is what lastOnline records.
C17_SnapshotIsCurrentPresence ==
  \A i \in 1..Len(sent) :
    sent[i].type = "onlineUsers"
      => /\ sent[i].users = OnlineKeys(activeUsers, sent[i].room)
         /\ lastOnline[sent[i].room]
              = [emitted |-> TRUE, users |-> sent[i].users]

C17_Witness ==
  /\ last.kind = "joinFindOk"
  /\ "pres" \notin last.had
  /\ sent[2].type = "onlineUsers"
  /\ sent[2].users = {}

\* C18: whenever no handler is suspended, the last onlineUsers emitted to
\* a room that has an open connection in it carries the room's presence set
\* (a room that has none yet and was never sent one included).
C18_LastSnapshotIsPresence ==
  Quiescent =>
    \A r \in Rooms :
      InRoom(subs, r) # {} => lastOnline[r].users = OnlineKeys(activeUsers, r)

\* C19: a message that is broadcast to a room and delivered to some
\* connection has a timestamp that is not below the timestamp of any
\* message broadcast to that room before it (the documents stored before
\* it): the messages of a room go out in the order in which they arrived.
C19_BroadcastInArrivalOrder ==
  (last.kind = "chatSaveOk" /\ sent[1].rcpt # {})
    => \A j \in 1..(Len(msgDb) - 1) :
         msgDb[j].room = last.room
           => msgDb[j].timestamp <= sent[1].msg.timestamp

\* The open connections joined to some room under the username user.
JoinedUnder(user) ==
  {c \in Conns : \E r \in Rooms : JoinedAs(c, r, user)}

\* C20: whenever no handler is suspended, the User document of a username
\* under which some open connection is joined to a room is marked online.
C20_OnlineWhileJoined ==
  Quiescent =>
    \A u \in Users :
      (userDb[u].exists /\ JoinedUnder(u) # {}) => userDb[u].isOnline

====
